---- MODULE Spec2Model ----
(***************************************************************************)
(* A model of plexplay: environment-driven configuration                   *)
(* (plexplay/config.py, plexplay/utils.py), the fetched track table and    *)
(* the two playlist selectors (plexplay/playlists.py), the playlist        *)
(* replacement on the Plex server, the Stopwatch (plexplay/utils.py) and   *)
(* the two programs (plexcli.py, playlist_updater.py).                     *)
(*                                                                         *)
(* Representation.                                                         *)
(*  - A Python string is a sequence of symbols.  A symbol is one digit,    *)
(*    the pipe "|", or a run of other characters ("Unrated Mix").          *)
(*  - A Python value is a record [t |-> type, v |-> payload].              *)
(*  - A float rating is the pair <<whole stars, odd half>>: the raw value  *)
(*    r halved is <<r \div 2, r % 2>>; NaN is <<None, 0>>.                 *)
(*  - A Track object is identified by its ratingKey ("key").               *)
(***************************************************************************)
EXTENDS Integers, Sequences, FiniteSets, TLC

VARIABLES
    env,        \* os.environ restricted to the PPLAY_* variables that are set
    config,     \* the module-level PlexConfig object
    library,    \* the server's music section: what searchTracks() returns
    musicpd,    \* the fetched track table (a DataFrame)
    um,         \* the frame of a running generate_unrated_mix call
    hs,         \* the frame of a running generate_hyper_shuffle_mix call
    ret,        \* outcome of the last call that finished
    playlists,  \* the server's playlists: title -> ordered items
    calls,      \* requests made to the server: [fetch, replace] counts
    now,        \* the clock datetime.datetime.now() reads, in seconds
    timer,      \* a Stopwatch object
    elapsed     \* what the last Stopwatch call returned

\* the Stopwatch and its clock
watch == <<now, timer, elapsed>>

vars == <<env, config, library, musicpd, um, hs, ret, playlists, calls, watch>>

-----------------------------------------------------------------------------
(* Bounds of the model *)

MaxTracks == 4

MaxHyperTracks == 3

MaxSessionTracks == 2

MaxEnvSet == 2

MaxItems == 2

MaxFetches == 2

MaxReplaces == 1

MaxFetchTracks == 3

MaxLoopTracks == 4

MaxRunTracks == 2

MaxTime == 3

MaxClicks == 3

-----------------------------------------------------------------------------
(* Python values *)

None == -1

NoneVal == [t |-> "None", v |-> <<>>]

IntVal(n) == [t |-> "int", v |-> n]

StrVal(s) == [t |-> "str", v |-> s]

ListVal(l) == [t |-> "list", v |-> l]

PathVal(s) == [t |-> "path", v |-> s]

\* a test that takes every int, 0 included, for a value
Truthy_zeroIsTrue(x) ==
    CASE x.t = "None" -> FALSE
      [] x.t = "int"  -> TRUE
      [] x.t = "str"  -> x.v # <<>>
      [] x.t = "list" -> x.v # <<>>
      [] OTHER        -> TRUE

\* Python truthiness, as the `or` of init_env tests it
Truthy(x) ==
    CASE x.t = "None" -> FALSE
      [] x.t = "int"  -> x.v # 0
      [] x.t = "str"  -> x.v # <<>>
      [] x.t = "list" -> x.v # <<>>
      [] OTHER        -> TRUE

\* an `or` that keeps its left operand whatever it is
Or_noDefault(x, d) == x

\* x or d
Or(x, d) == IF Truthy(x) THEN x ELSE d

-----------------------------------------------------------------------------
(* plexplay/utils.py: get_from_env *)

Digits == {"0", "1", "2", "3", "4", "5", "6", "7", "8", "9"}

DigitVal(ch) ==
    CASE ch = "0" -> 0 [] ch = "1" -> 1 [] ch = "2" -> 2 [] ch = "3" -> 3
      [] ch = "4" -> 4 [] ch = "5" -> 5 [] ch = "6" -> 6 [] ch = "7" -> 7
      [] ch = "8" -> 8 [] ch = "9" -> 9

\* str.isnumeric(): non-empty and every character a digit
IsNumeric(s) == Len(s) > 0 /\ \A i \in 1..Len(s) : s[i] \in Digits

\* int(s) of a numeric string
RECURSIVE ParseInt(_)
ParseInt(s) ==
    IF s = <<>> THEN 0
    ELSE 10 * ParseInt(SubSeq(s, 1, Len(s) - 1)) + DigitVal(s[Len(s)])

\* '|' in item
HasPipe(s) == \E i \in 1..Len(s) : s[i] = "|"

\* [x for x in item.split('|') if x != '']
RECURSIVE SplitPipe(_, _)
SplitPipe(s, cur) ==
    IF s = <<>> THEN (IF cur = <<>> THEN <<>> ELSE <<cur>>)
    ELSE IF Head(s) = "|"
         THEN (IF cur = <<>> THEN <<>> ELSE <<cur>>) \o SplitPipe(Tail(s), <<>>)
         ELSE SplitPipe(Tail(s), Append(cur, Head(s)))

\* 'FILE' in name or 'DIR' in name
NameIsFileOrDir(name) == name \in {"PPLAY_LOG_FILE"}

\* os.getenv(name)
GetEnv(e, name) == IF name \in DOMAIN e THEN StrVal(e[name]) ELSE NoneVal

\* get_from_env(name) with no template option.  The values drawn here hold
\* no ':' entry, so the two dict conversions of a split list never apply.
get_from_env(e, name) ==
    LET item == GetEnv(e, name) IN
    IF item.t = "None" THEN NoneVal
    ELSE IF HasPipe(item.v) THEN ListVal(SplitPipe(item.v, <<>>))
    ELSE IF IsNumeric(item.v) THEN IntVal(ParseInt(item.v))
    ELSE IF NameIsFileOrDir(name) THEN PathVal(item.v)
    ELSE item

-----------------------------------------------------------------------------
(* plexplay/utils.py: Stopwatch *)

\* Stopwatch() constructed when the clock reads t: __init__
Stopwatch(t) ==
    [start_time |-> t, last_time |-> t, stop_time |-> None, click_count |-> 1]

\* a float the Stopwatch returns, kept as the quotient num / den
Seconds(fn, num, den) == [fn |-> fn, num |-> num, den |-> den]

NoElapsed == Seconds("none", 0, 1)

\* the value of self.time(running_total) when the clock reads t
Time(sw, t, running_total) ==
    LET start_time == IF running_total THEN sw.start_time ELSE sw.last_time
        stop_time  == IF sw.stop_time = None THEN t ELSE sw.stop_time
    IN  stop_time - start_time

\* a Stopwatch nobody calls
WatchIdle ==
    /\ now = 0
    /\ timer = Stopwatch(0)
    /\ elapsed = NoElapsed

Rest == <<env, config, library, musicpd, um, hs, ret, playlists, calls>>

\* time passes
tick ==
    /\ now < MaxTime
    /\ now' = now + 1
    /\ UNCHANGED <<timer, elapsed, Rest>>

\* Stopwatch.start()
start ==
    /\ timer' = [timer EXCEPT !.start_time = now, !.last_time = now, !.stop_time = None]
    /\ elapsed' = Seconds("start", 0, 1)
    /\ UNCHANGED <<now, Rest>>

\* a click that never looks at the stop time
click_always ==
    /\ timer.click_count < MaxClicks
    /\ timer' = [timer EXCEPT !.click_count = @ + 1, !.last_time = now]
    /\ elapsed' = Seconds("click", Time(timer, now, FALSE), 1)
    /\ UNCHANGED <<now, Rest>>

\* Stopwatch.click(): the clock is read once by time() and once more for
\* the new timing point, and may have moved in between
click ==
    /\ timer.stop_time # None \/ timer.click_count < MaxClicks
    /\ elapsed' = Seconds("click", Time(timer, now, FALSE), 1)
    /\ IF timer.stop_time = None
       THEN \E t \in {now, now + 1} :
               /\ t <= MaxTime
               /\ now' = t
               /\ timer' = [timer EXCEPT !.click_count = @ + 1, !.last_time = t]
       ELSE UNCHANGED <<now, timer>>
    /\ UNCHANGED Rest

\* Stopwatch.stop()
stop ==
    /\ timer' = IF timer.stop_time = None
                THEN [timer EXCEPT !.stop_time = now, !.last_time = timer.start_time]
                ELSE timer
    /\ elapsed' = Seconds("stop", Time(timer', now, FALSE), 1)
    /\ UNCHANGED <<now, Rest>>

\* Stopwatch.time(running_total)
time(running_total) ==
    /\ elapsed' = Seconds("time", Time(timer, now, running_total), 1)
    /\ UNCHANGED <<now, timer, Rest>>

\* Stopwatch.avg(): self.time(running_total=True) / self._click_count, which
\* raises ZeroDivisionError on a click count of 0
avg ==
    /\ elapsed' = IF timer.click_count = 0
                  THEN Seconds("ZeroDivisionError", 0, 1)
                  ELSE Seconds("avg", Time(timer, now, TRUE), timer.click_count)
    /\ UNCHANGED <<now, timer, Rest>>

-----------------------------------------------------------------------------
(* plexplay/config.py: PlexConfig *)

DefaultLookbackMult == 6

DefaultUnratedSize == 100

DefaultNum5 == 15

DefaultNum4 == 60

DefaultNum3 == 16

DefaultNum2 == 6

DefaultNum1 == 1

DefaultNum0 == 2

DefaultAttrsCooked == <<<<"id">>, <<"title">>, <<"album">>, <<"artist">>,
                        <<"rating">>, <<"views">>, <<"lastviewed">>>>

\* config = PlexConfig('EmptyConfig'): the dataclass defaults
EmptyConfig ==
    [ name               |-> StrVal(<<"EmptyConfig">>),
      load_only          |-> FALSE,
      initialized        |-> FALSE,
      log_level          |-> StrVal(<<>>),
      log_file           |-> StrVal(<<>>),
      log_format         |-> StrVal(<<>>),
      music_section      |-> StrVal(<<>>),
      music_attrs_cooked |-> StrVal(<<>>),
      play_loopback_mult |-> IntVal(0),
      play_unrated_name  |-> StrVal(<<>>),
      play_unrated_size  |-> IntVal(0),
      play_hyper_name    |-> StrVal(<<>>),
      play_hyper_sources |-> <<>> ]

\* d[k] = v on a dict kept as a sequence of [star, count] in insertion order
DictSet(d, k, v) ==
    IF \E i \in 1..Len(d) : d[i].star = k
    THEN [i \in 1..Len(d) |-> IF d[i].star = k THEN [star |-> k, count |-> v] ELSE d[i]]
    ELSE Append(d, [star |-> k, count |-> v])

\* logging's level names: Handler.setLevel accepts an int or one of these
LevelNames == {<<"CRITICAL">>, <<"FATAL">>, <<"ERROR">>, <<"WARN">>,
               <<"WARNING">>, <<"INFO">>, <<"DEBUG">>, <<"NOTSET">>}

DefaultLogFormat ==
    <<"%(asctime)s:%(levelname)-3.3s:%(funcName)-16.16s:%(lineno)-.3d: %(message)s">>

\* the %-style formats logging.Formatter accepts, among the strings drawn here
ValidFormats == {DefaultLogFormat, <<"%(message)s">>}

\* init_logging raises when logging refuses the file name (FileHandler), the
\* format (Formatter) or the level (setLevel) it is handed
LoggingRaises(c) ==
    \/ c.log_file.t \notin {"str", "path"}
    \/ ~(c.log_format.t = "str" /\ c.log_format.v \in ValidFormats)
    \/ ~ \/ c.log_level.t = "int"
         \/ c.log_level.t = "str" /\ c.log_level.v \in LevelNames

\* init_env, the logging section (the assignments made before init_logging)
LoggingSection(c, e) ==
    [c EXCEPT
       !.log_level  = Or(get_from_env(e, "PPLAY_LOG_LEVEL"), StrVal(<<"DEBUG">>)),
       !.log_file   = Or(get_from_env(e, "PPLAY_LOG_FILE"), StrVal(<<"logfile.log">>)),
       !.log_format = Or(get_from_env(e, "PPLAY_LOG_FORMAT"), StrVal(DefaultLogFormat))]

\* the six assignments play_hyper_sources[k] = get_from_env('PPLAY_NUM_k') or default
HyperSources(d, e) ==
    LET d5 == DictSet(d,  5, Or(get_from_env(e, "PPLAY_NUM_5"), IntVal(DefaultNum5)))
        d4 == DictSet(d5, 4, Or(get_from_env(e, "PPLAY_NUM_4"), IntVal(DefaultNum4)))
        d3 == DictSet(d4, 3, Or(get_from_env(e, "PPLAY_NUM_3"), IntVal(DefaultNum3)))
        d2 == DictSet(d3, 2, Or(get_from_env(e, "PPLAY_NUM_2"), IntVal(DefaultNum2)))
        d1 == DictSet(d2, 1, Or(get_from_env(e, "PPLAY_NUM_1"), IntVal(DefaultNum1)))
    IN  DictSet(d1, 0, Or(get_from_env(e, "PPLAY_NUM_0"), IntVal(DefaultNum0)))

\* init_env, everything after the logging section
SettingsSection(c, e, name) ==
    [c EXCEPT
       !.music_section      = Or(get_from_env(e, "PPLAY_MUSIC_LIBRARY"), StrVal(<<"Music">>)),
       !.music_attrs_cooked = Or(get_from_env(e, "PPLAY_MUSIC_ATTRS_COOKED"),
                                 ListVal(DefaultAttrsCooked)),
       !.play_loopback_mult = Or(get_from_env(e, "PPLAY_LOOKBACK_MULTIPLIER"),
                                 IntVal(DefaultLookbackMult)),
       !.play_unrated_name  = Or(get_from_env(e, "PPLAY_UNRATED_NAME"),
                                 StrVal(<<"Unrated Mix">>)),
       !.play_unrated_size  = Or(get_from_env(e, "PPLAY_UNRATED_SIZE"),
                                 IntVal(DefaultUnratedSize)),
       !.play_hyper_name    = Or(get_from_env(e, "PPLAY_HYPER_NAME"),
                                 StrVal(<<"HyperShuffle">>)),
       !.play_hyper_sources = HyperSources(c.play_hyper_sources, e),
       !.name               = IF Truthy(name) THEN name
                              ELSE Or(get_from_env(e, "PPLAY_SERVER"),
                                      StrVal(<<"PlexServer">>)),
       !.load_only          = Truthy(get_from_env(e, "PPLAY_LOAD_ONLY")),
       !.initialized        = TRUE]

\* The configuration a completed init_env leaves
InitEnvConfig(c, e, name) == SettingsSection(LoggingSection(c, e), e, name)

NoRet == [fn |-> "none", status |-> "none", exc |-> "", name |-> NoneVal, tracks |-> <<>>]

Returned(fn, name, tracks) ==
    [fn |-> fn, status |-> "ok", exc |-> "", name |-> name, tracks |-> tracks]

Raised(fn, exc) ==
    [fn |-> fn, status |-> "raised", exc |-> exc, name |-> NoneVal, tracks |-> <<>>]

IdleUm == [pc |-> "idle", albums |-> <<>>, pos |-> 0, tracks |-> {}]

IdleHs == [pc |-> "idle", idx |-> 0, tracks |-> <<>>]

Idle == um.pc = "idle" /\ hs.pc = "idle"

\* PlexConfig.init_env(name, force)
init_env(name, force) ==
    /\ Idle
    /\ IF config.initialized /\ ~force
       THEN /\ config' = config
            /\ ret' = Returned("init_env", NoneVal, <<>>)
       ELSE IF LoggingRaises(LoggingSection(config, env))
       THEN /\ config' = LoggingSection(config, env)
            /\ ret' = Raised("init_env", "ValueError")
       ELSE /\ config' = InitEnvConfig(config, env, name)
            /\ ret' = Returned("init_env", NoneVal, <<>>)
    /\ UNCHANGED <<env, library, musicpd, um, hs, playlists, calls, watch>>

-----------------------------------------------------------------------------
(* The music library and plexplay/playlists.py: get_all_tracks *)

\* config.music_attrs_raw (its default; the attributes read off each Track)
RawHeaders == <<"guid", "title", "parentTitle", "grandparentTitle",
                "userRating", "viewCount", "lastViewedAt">>

TrackCol == <<"track">>

IdCol == <<"id">>

AlbumCol == <<"album">>

RatingCol == <<"rating">>

LastViewedCol == <<"lastviewed">>

NaN == <<None, 0>>

\* musicpd.rating / 2 on one cell: None became NaN in the frame and stays NaN
Halve(raw) == IF raw = None THEN NaN ELSE <<raw \div 2, raw % 2>>

\* the float a whole star count compares equal to (rating == star)
StarFloat(star) == <<star, 0>>

ColSet(cols) == {cols[k] : k \in 1..Len(cols)}

\* one row of pd.DataFrame([[getattr(i, j) for j in headers] ...], columns=headers),
\* renamed to the cooked names, with the Track object in column 'track'
RowOf(trk, cols) ==
    [c \in ColSet(cols) \cup {TrackCol} |->
        IF c = TrackCol THEN trk.key
        ELSE trk[RawHeaders[CHOOSE k \in 1..Len(cols) : cols[k] = c]]]

\* a table that keeps every row
DropDuplicates_keepAll(rows, col) == rows

\* musicpd.drop_duplicates('id'): the first row of each id is kept
DropDuplicates(rows, col) ==
    LET keep == {i \in 1..Len(rows) : \A j \in 1..(i - 1) : rows[j][col] # rows[i][col]}
        F[i \in 0..Len(rows)] ==
            IF i = 0 THEN <<>>
            ELSE IF i \in keep THEN Append(F[i - 1], rows[i]) ELSE F[i - 1]
    IN  F[Len(rows)]

\* hasattr(musicpd, col)
HasAttr(pd, col) == col \in ColSet(pd.cols)

NoTable == [cols |-> <<>>, rows |-> <<>>]

\* get_all_tracks: the frame built from searchTracks(), deduplicated by id,
\* its rating column halved when there is one
get_all_tracks(lib, c) ==
    LET cols  == c.music_attrs_cooked.v
        raw   == [i \in 1..Len(lib) |-> RowOf(lib[i], cols)]
        dedup == DropDuplicates(raw, IdCol)
    IN  [cols |-> cols,
         rows |-> IF RatingCol \in ColSet(cols)
                  THEN [i \in 1..Len(dedup) |->
                          [dedup[i] EXCEPT ![RatingCol] = Halve(@)]]
                  ELSE dedup]

\* get_all_tracks raises when the cooked names do not fit the seven raw
\* columns (pandas: length mismatch) or hold no 'id' to deduplicate on
FetchRaises(c) ==
    \/ c.music_attrs_cooked.t # "list"
    \/ Len(c.music_attrs_cooked.v) # Len(RawHeaders)
    \/ IdCol \notin ColSet(c.music_attrs_cooked.v)

-----------------------------------------------------------------------------
(* Sequences and random draws *)

SeqSet(s) == {s[i] : i \in 1..Len(s)}

\* every order a shuffle of s, or list(set) of its elements, can produce
Shuffles(s) == {[i \in 1..Len(s) |-> s[p[i]]] : p \in Permutations(1..Len(s))}

Injections(k, n) ==
    {f \in [1..k -> 1..n] : \A i, j \in 1..k : i # j => f[i] # f[j]}

\* random.sample(s, k): k positions of s drawn without replacement
Samples(s, k) == {[i \in 1..k |-> s[f[i]]] : f \in Injections(k, Len(s))}

\* the .track.tolist() of a sequence of rows
TrackList(rows) == [i \in 1..Len(rows) |-> rows[i][TrackCol]]

\* series.drop_duplicates().to_list(): first occurrences, in order
RECURSIVE Distinct(_)
Distinct(s) ==
    IF s = <<>> THEN <<>>
    ELSE LET d == Distinct(SubSeq(s, 1, Len(s) - 1))
         IN  IF s[Len(s)] \in SeqSet(d) THEN d ELSE Append(d, s[Len(s)])

-----------------------------------------------------------------------------
(* plexplay/playlists.py: generate_unrated_mix *)

\* a filter that also takes the rows whose rating is missing
UnratedRows_orNaN(pd) ==
    LET IsUnrated(r) == r[RatingCol] = StarFloat(0) \/ r[RatingCol] = NaN
    IN  SelectSeq(pd.rows, IsUnrated)

\* a filter whose slice loses its first match
UnratedRows_skipFirst(pd) ==
    LET IsUnrated(r) == r[RatingCol] = StarFloat(0)
        sel == SelectSeq(pd.rows, IsUnrated)
    IN  IF sel = <<>> THEN sel ELSE Tail(sel)

\* temp_pd = musicpd[musicpd.rating == 0.0]
UnratedRows(pd) ==
    LET IsUnrated(r) == r[RatingCol] = StarFloat(0)
    IN  SelectSeq(pd.rows, IsUnrated)

\* a choice that always takes the album's first track
AlbumTracks_firstOnly(rows, album) ==
    LET OnAlbum(r) == r[AlbumCol] = album
        sel == SelectSeq(rows, OnAlbum)
    IN  TrackList(SubSeq(sel, 1, IF Len(sel) > 0 THEN 1 ELSE 0))

\* temp_pd[temp_pd.album == album].track.tolist()
AlbumTracks(rows, album) ==
    LET OnAlbum(r) == r[AlbumCol] = album
    IN  TrackList(SelectSeq(rows, OnAlbum))

\* a draw from the album's rows of the whole table
DrawPool_allRows(pd) == pd.rows

\* the rows random.choice draws from in the loop
DrawPool(pd) == UnratedRows(pd)

\* a loop that runs once more
UnratedLoopCond_le(tracks, mix_size) == Cardinality(tracks) <= mix_size

\* while len(tracks) < mix_size
UnratedLoopCond(tracks, mix_size) == Cardinality(tracks) < mix_size

\* the call up to the loop, on its locals and its return value: lines 62-84
UnratedCall ==
    LET mix_size == config.play_unrated_size
        mix_name == config.play_unrated_name
    IN  IF ~HasAttr(musicpd, RatingCol)
        THEN /\ ret' = Returned("generate_unrated_mix", mix_name, <<>>)
             /\ um' = IdleUm
        ELSE LET temp_pd == UnratedRows(musicpd) IN
             IF mix_size.t # "int"
             THEN /\ ret' = Raised("generate_unrated_mix", "TypeError")
                  /\ um' = IdleUm
             ELSE IF Len(temp_pd) <= mix_size.v
             THEN /\ ret' = Returned("generate_unrated_mix", mix_name, TrackList(temp_pd))
                  /\ um' = IdleUm
             ELSE /\ \E albums \in Shuffles(Distinct([i \in 1..Len(temp_pd) |->
                                                       temp_pd[i][AlbumCol]])) :
                       um' = [pc |-> "loop", albums |-> albums, pos |-> 1, tracks |-> {}]
                  /\ ret' = NoRet

\* a selector that filters the caller's frame in place
generate_unrated_mix_inplace ==
    /\ Idle
    /\ UnratedCall
    /\ musicpd' = IF HasAttr(musicpd, RatingCol)
                  THEN [musicpd EXCEPT !.rows = UnratedRows(musicpd)]
                  ELSE musicpd
    /\ UNCHANGED <<env, config, library, hs, playlists, calls, watch>>

\* generate_unrated_mix(musicpd), entered
generate_unrated_mix ==
    /\ Idle
    /\ UnratedCall
    /\ UNCHANGED <<env, config, library, musicpd, hs, playlists, calls, watch>>

\* one iteration of the while loop: lines 87-90
unrated_mix_draw ==
    /\ um.pc = "loop"
    /\ UnratedLoopCond(um.tracks, config.play_unrated_size.v)
    /\ LET album == um.albums[um.pos]
       IN  \E t \in SeqSet(AlbumTracks(DrawPool(musicpd), album)) :
              um' = [um EXCEPT !.tracks = @ \cup {t},
                               !.pos = (um.pos % Len(um.albums)) + 1]
    /\ UNCHANGED <<env, config, library, musicpd, hs, ret, playlists, calls, watch>>

\* the loop is left and list(tracks) returned: line 92
unrated_mix_return ==
    /\ um.pc = "loop"
    /\ ~UnratedLoopCond(um.tracks, config.play_unrated_size.v)
    /\ \E order \in Shuffles(CHOOSE s \in [1..Cardinality(um.tracks) -> um.tracks] :
                                SeqSet(s) = um.tracks) :
          ret' = Returned("generate_unrated_mix", config.play_unrated_name, order)
    /\ um' = IdleUm
    /\ UNCHANGED <<env, config, library, musicpd, hs, playlists, calls, watch>>

-----------------------------------------------------------------------------
(* plexplay/playlists.py: generate_hyper_shuffle_mix *)

\* musicpd[musicpd.rating == star]
StarRows(pd, star) ==
    LET HasStar(r) == r[RatingCol] = StarFloat(star)
    IN  SelectSeq(pd.rows, HasStar)

\* a descending sort
SortedBefore_desc(a, b) ==
    \/ a[LastViewedCol] = None
    \/ b[LastViewedCol] # None /\ a[LastViewedCol] >= b[LastViewedCol]

\* the order sort_values('lastviewed', na_position='first') allows between two rows
SortedBefore(a, b) ==
    \/ a[LastViewedCol] = None
    \/ b[LastViewedCol] # None /\ a[LastViewedCol] <= b[LastViewedCol]

\* every result of the sort; rows with equal keys may come out in any order
SortValues(rows) ==
    {s \in Shuffles(rows) : \A i \in 1..(Len(s) - 1) : SortedBefore(s[i], s[i + 1])}

\* .iloc[:n]
ILoc(rows, n) == SubSeq(rows, 1, IF n < Len(rows) THEN n ELSE Len(rows))

\* a slice that forgets the count
WindowSize_multOnly(temp_count, multiplier) == multiplier

\* the end of the slice taken from the sorted rows: temp_count*multiplier
WindowSize(temp_count, multiplier) == temp_count * multiplier

\* a draw with replacement (random.choices)
RandomSample_withReplacement(temp_list, temp_count) ==
    {[i \in 1..temp_count |-> temp_list[f[i]]] : f \in [1..temp_count -> 1..Len(temp_list)]}

\* random.sample(temp_list, temp_count)
RandomSample(temp_list, temp_count) == Samples(temp_list, temp_count)

\* the call up to the loop: lines 104-109
generate_hyper_shuffle_mix ==
    /\ Idle
    /\ hs' = [pc |-> "loop", idx |-> 1, tracks |-> <<>>]
    /\ ret' = NoRet
    /\ UNCHANGED <<env, config, library, musicpd, um, playlists, calls, watch>>

\* one iteration of the loop over play_hyper_sources: lines 111-125
hyper_shuffle_bucket ==
    /\ hs.pc = "loop"
    /\ hs.idx <= Len(config.play_hyper_sources)
    /\ LET star       == config.play_hyper_sources[hs.idx].star
           temp_count == config.play_hyper_sources[hs.idx].count
           multiplier == config.play_loopback_mult
       IN  IF ~HasAttr(musicpd, RatingCol)
           THEN /\ ret' = Raised("generate_hyper_shuffle_mix", "AttributeError")
                /\ hs' = IdleHs
           ELSE IF temp_count.t # "int" \/ multiplier.t # "int"
           THEN /\ ret' = Raised("generate_hyper_shuffle_mix", "TypeError")
                /\ hs' = IdleHs
           ELSE /\ \E sorted \in SortValues(StarRows(musicpd, star)) :
                     LET temp_list == TrackList(ILoc(sorted,
                                          WindowSize(temp_count.v, multiplier.v)))
                     IN  IF Len(temp_list) >= temp_count.v
                         THEN \E picked \in RandomSample(temp_list, temp_count.v) :
                                 hs' = [hs EXCEPT !.idx = @ + 1, !.tracks = @ \o picked]
                         ELSE hs' = [hs EXCEPT !.idx = @ + 1, !.tracks = @ \o temp_list]
                /\ ret' = ret
    /\ UNCHANGED <<env, config, library, musicpd, um, playlists, calls, watch>>

\* random.shuffle(tracks) and the return: lines 128-130
hyper_shuffle_return ==
    /\ hs.pc = "loop"
    /\ hs.idx > Len(config.play_hyper_sources)
    /\ \E order \in Shuffles(hs.tracks) :
          ret' = Returned("generate_hyper_shuffle_mix", config.play_hyper_name, order)
    /\ hs' = IdleHs
    /\ UNCHANGED <<env, config, library, musicpd, um, playlists, calls, watch>>

-----------------------------------------------------------------------------
(* plexplay/server.py: PlexMusicLibrary.fetch_tracks *)

\* self.musicpd = get_all_tracks(self.server): one searchTracks() request
fetch_tracks ==
    /\ Idle
    /\ calls.fetch < MaxFetches
    /\ calls' = [calls EXCEPT !.fetch = @ + 1]
    /\ IF FetchRaises(config)
       THEN /\ ret' = Raised("fetch_tracks", "ValueError")
            /\ musicpd' = musicpd
       ELSE /\ ret' = Returned("fetch_tracks", NoneVal, <<>>)
            /\ musicpd' = get_all_tracks(library, config)
    /\ UNCHANGED <<env, config, library, um, hs, playlists, watch>>

-----------------------------------------------------------------------------
(* plexplay/playlists.py: change_playlist_content, and the server's side of it *)

\* any([name == pl.title for pl in plex.playlists()])
PlaylistExists(pls, name) == name \in DOMAIN pls

\* plex.createPlaylist(name, tracks)
createPlaylist(pls, name, tracks) ==
    [n \in DOMAIN pls \cup {name} |-> IF n = name THEN tracks ELSE pls[n]]

\* playlist.removeItem(item): the first entry holding that item goes
removeItem(items, item) ==
    IF item \notin SeqSet(items) THEN items
    ELSE LET k == CHOOSE i \in 1..Len(items) :
                     items[i] = item /\ \A j \in 1..(i - 1) : items[j] # item
         IN  SubSeq(items, 1, k - 1) \o SubSeq(items, k + 1, Len(items))

\* [playlist.removeItem(item) for item in playlist.items()]
RECURSIVE RemoveItems(_, _)
RemoveItems(items, listed) ==
    IF listed = <<>> THEN items
    ELSE RemoveItems(removeItem(items, Head(listed)), Tail(listed))

\* playlist.addItems(tracks)
addItems(items, tracks) == items \o tracks

\* a replacement that never empties the playlist
ReplaceItems_keepOld(items, tracks) == addItems(items, tracks)

\* the playlist's items once the else branch has run: lines 150-153
ReplaceItems(items, tracks) == addItems(RemoveItems(items, items), tracks)

\* change_playlist_content(plex, name, tracks)
change_playlist_content(name, tracks) ==
    /\ Idle
    /\ calls.replace < MaxReplaces
    /\ calls' = [calls EXCEPT !.replace = @ + 1]
    /\ IF ~PlaylistExists(playlists, name)
       THEN playlists' = createPlaylist(playlists, name, tracks)
       ELSE playlists' = [playlists EXCEPT ![name] = ReplaceItems(@, tracks)]
    /\ ret' = Returned("change_playlist_content", name, playlists'[name])
    /\ UNCHANGED <<env, config, library, musicpd, um, hs, watch>>

\* plexcli.py do_update, after the selector returned: lines 142-144
update_playlist ==
    /\ ret.status = "ok"
    /\ ret.fn \in {"generate_unrated_mix", "generate_hyper_shuffle_mix"}
    /\ ~config.load_only
    /\ change_playlist_content(ret.name, ret.tracks)

-----------------------------------------------------------------------------
(* The two programs: plexcli.py (the shell) and playlist_updater.py (the script) *)

\* the process has just started: `import plexplay as px` has run, nothing else
Started ==
    /\ Idle
    /\ ret = NoRet
    /\ ~config.initialized
    /\ musicpd = NoTable

\* PlexShell.__init__: init_env(), then PlexMusicLibrary(...) which fetches
PlexShell_init ==
    /\ Started
    /\ IF LoggingRaises(LoggingSection(config, env))
       THEN /\ config' = LoggingSection(config, env)
            /\ ret' = Raised("PlexShell", "ValueError")
            /\ UNCHANGED <<musicpd, calls>>
       ELSE /\ config' = InitEnvConfig(config, env, NoneVal)
            /\ calls' = [calls EXCEPT !.fetch = @ + 1]
            /\ IF FetchRaises(config')
               THEN /\ ret' = Raised("PlexShell", "ValueError")
                    /\ musicpd' = musicpd
               ELSE /\ ret' = Returned("PlexShell", config'.name, <<>>)
                    /\ musicpd' = get_all_tracks(library, config')
    /\ UNCHANGED <<env, library, um, hs, playlists, watch>>

\* a constructed shell waiting for a command
ShellUp == config.initialized /\ musicpd # NoTable

\* do_update with `unrated`: line 135
do_update_unrated == ShellUp /\ generate_unrated_mix

\* do_update with `hyper`: line 138
do_update_hyper == ShellUp /\ generate_hyper_shuffle_mix

\* playlist_updater.py, its main block.  plexplay/__init__.py binds
\* get_from_env, Stopwatch, connect_to_server, PlexMusicLibrary, the four
\* playlist functions and config, and no get_logger: `px.get_logger()` on
\* line 32 raises AttributeError, and lines 33-68 never run.
playlist_updater ==
    /\ Started
    /\ ret' = Raised("playlist_updater", "AttributeError")
    /\ UNCHANGED <<env, config, library, musicpd, um, hs, playlists, calls, watch>>

-----------------------------------------------------------------------------
(* Inputs: environments and libraries *)

\* every environment that sets at most k of the variables V, each to one of Val(v)
Envs(V, Val, k) ==
    UNION {{e \in [S -> UNION {Val[v] : v \in S}] : \A v \in S : e[v] \in Val[v]} :
             S \in {T \in SUBSET V : Cardinality(T) <= k}}

\* a Track of the music section; title, artist and view count are never read
TrackAt(i, g, al, rt, tm) ==
    [key |-> i, guid |-> g, title |-> "t", parentTitle |-> al,
     grandparentTitle |-> "ar", userRating |-> rt, viewCount |-> 0,
     lastViewedAt |-> tm]

\* every music section of at most n tracks with distinct guids
Libraries(n, AL, RT, TM) ==
    UNION {{[i \in 1..k |-> TrackAt(i, i, f[i][1], f[i][2], f[i][3])] :
              f \in [1..k -> AL \X RT \X TM]} : k \in 0..n}

Albums == {"A", "B"}

RawRatings == {None, 0, 2}

Times == {None, 1, 2}

\* PPLAY_MUSIC_ATTRS_COOKED naming the rating column 'stars'
CookedNoRating == <<"id", "|", "title", "|", "album", "|", "artist", "|",
                    "stars", "|", "views", "|", "lastviewed">>

SelectorVars == {"PPLAY_UNRATED_SIZE", "PPLAY_LOOKBACK_MULTIPLIER",
                 "PPLAY_MUSIC_ATTRS_COOKED"}

SelectorValues ==
    [v \in SelectorVars |->
        CASE v = "PPLAY_UNRATED_SIZE"        -> {<<"1">>, <<"2">>}
          [] v = "PPLAY_LOOKBACK_MULTIPLIER" -> {<<"1">>, <<"2">>}
          [] v = "PPLAY_MUSIC_ATTRS_COOKED"  -> {CookedNoRating}]

\* The state once the shell is constructed (PlexShell.__init__): the
\* configuration read from the environment, the table fetched once.
Constructed(e, lib) ==
    /\ env = e
    /\ library = lib
    /\ config = InitEnvConfig(EmptyConfig, e, NoneVal)
    /\ musicpd = get_all_tracks(lib, config)
    /\ um = IdleUm
    /\ hs = IdleHs
    /\ ret = NoRet
    /\ playlists = <<>>
    /\ calls = [fetch |-> 1, replace |-> 0]
    /\ WatchIdle

-----------------------------------------------------------------------------
(* The selectors on their own *)

InitUnrated ==
    \E e \in Envs({"PPLAY_UNRATED_SIZE", "PPLAY_MUSIC_ATTRS_COOKED"}, SelectorValues, 2) :
    \E lib \in Libraries(MaxTracks, Albums, RawRatings, {None}) :
        Constructed(e, lib)

NextUnrated ==
    \/ generate_unrated_mix
    \/ unrated_mix_draw
    \/ unrated_mix_return

SpecUnrated == InitUnrated /\ [][NextUnrated]_vars

InitHyper ==
    \E e \in Envs({"PPLAY_LOOKBACK_MULTIPLIER", "PPLAY_MUSIC_ATTRS_COOKED"}, SelectorValues, 2) :
    \E lib \in Libraries(MaxHyperTracks, {"A"}, RawRatings, Times) :
        Constructed(e, lib)

NextHyper ==
    \/ generate_hyper_shuffle_mix
    \/ hyper_shuffle_bucket
    \/ hyper_shuffle_return

SpecHyper == InitHyper /\ [][NextHyper]_vars

-----------------------------------------------------------------------------
(* A shell session: both selectors, re-fetching, and playlist updates *)

SessionVars == {"PPLAY_UNRATED_SIZE", "PPLAY_MUSIC_ATTRS_COOKED"}

SessionValues ==
    [v \in SessionVars |->
        CASE v = "PPLAY_UNRATED_SIZE"       -> {<<"1">>}
          [] v = "PPLAY_MUSIC_ATTRS_COOKED" -> {CookedNoRating}]

Init ==
    \E e \in Envs(SessionVars, SessionValues, 2) :
    \E lib \in Libraries(MaxSessionTracks, Albums, RawRatings, {None, 1}) :
        Constructed(e, lib)

Next ==
    \/ generate_unrated_mix
    \/ unrated_mix_draw
    \/ unrated_mix_return
    \/ generate_hyper_shuffle_mix
    \/ hyper_shuffle_bucket
    \/ hyper_shuffle_return
    \/ fetch_tracks
    \/ update_playlist

Spec == Init /\ [][Next]_vars

-----------------------------------------------------------------------------
(* Configuration on its own: init_env over the environments *)

ConfigVars ==
    {"PPLAY_LOG_LEVEL", "PPLAY_LOG_FILE", "PPLAY_LOG_FORMAT", "PPLAY_MUSIC_LIBRARY",
     "PPLAY_MUSIC_ATTRS_COOKED", "PPLAY_LOOKBACK_MULTIPLIER", "PPLAY_UNRATED_NAME",
     "PPLAY_UNRATED_SIZE", "PPLAY_HYPER_NAME", "PPLAY_NUM_5", "PPLAY_NUM_4",
     "PPLAY_NUM_3", "PPLAY_NUM_2", "PPLAY_NUM_1", "PPLAY_NUM_0", "PPLAY_SERVER",
     "PPLAY_LOAD_ONLY"}

\* sample values: empty, zero, a number, a word, a pipe-separated list
ConfigValues ==
    [v \in ConfigVars |->
        {<<>>, <<"0">>, <<"1", "2">>, <<"x">>, <<"a", "|", "b">>}
          \cup (IF v = "PPLAY_LOG_LEVEL" THEN {<<"INFO">>} ELSE {})
          \cup (IF v = "PPLAY_LOG_FORMAT" THEN {<<"%(message)s">>} ELSE {})]

\* the process before anything ran: config = PlexConfig('EmptyConfig')
InitConfig ==
    /\ env \in Envs(ConfigVars, ConfigValues, MaxEnvSet)
    /\ config = EmptyConfig
    /\ library = <<>>
    /\ musicpd = NoTable
    /\ um = IdleUm
    /\ hs = IdleHs
    /\ ret = NoRet
    /\ playlists = <<>>
    /\ calls = [fetch |-> 0, replace |-> 0]
    /\ WatchIdle

NextConfig ==
    \E name \in {NoneVal, StrVal(<<"srv">>)}, force \in BOOLEAN : init_env(name, force)

SpecConfig == InitConfig /\ [][NextConfig]_vars

-----------------------------------------------------------------------------
(* Playlist replacement on its own *)

PlaylistNames == {StrVal(<<"Unrated Mix">>), StrVal(<<"HyperShuffle">>), StrVal(<<"Other">>)}

ItemLists == UNION {[1..k -> 1..2] : k \in 0..MaxItems}

InitPlaylist ==
    /\ env = <<>>
    /\ config = InitEnvConfig(EmptyConfig, <<>>, NoneVal)
    /\ library = <<>>
    /\ musicpd = NoTable
    /\ um = IdleUm
    /\ hs = IdleHs
    /\ ret = NoRet
    /\ playlists \in UNION {[S -> ItemLists] : S \in SUBSET PlaylistNames}
    /\ calls = [fetch |-> 0, replace |-> 0]
    /\ WatchIdle

NextPlaylist ==
    \E name \in {config.play_unrated_name, config.play_hyper_name}, tracks \in ItemLists :
        change_playlist_content(name, tracks)

SpecPlaylist == InitPlaylist /\ [][NextPlaylist]_vars

-----------------------------------------------------------------------------
(* A Stopwatch on its own *)

\* timer = Stopwatch() at some time of the clock
InitStopwatch ==
    /\ now \in 0..1
    /\ timer = Stopwatch(now)
    /\ elapsed = NoElapsed
    /\ env = <<>>
    /\ config = EmptyConfig
    /\ library = <<>>
    /\ musicpd = NoTable
    /\ um = IdleUm
    /\ hs = IdleHs
    /\ ret = NoRet
    /\ playlists = <<>>
    /\ calls = [fetch |-> 0, replace |-> 0]

NextStopwatch ==
    \/ tick
    \/ start
    \/ click
    \/ stop
    \/ \E running_total \in BOOLEAN : time(running_total)
    \/ avg

SpecStopwatch == InitStopwatch /\ [][NextStopwatch]_vars

-----------------------------------------------------------------------------
(* A run of either program, from the start of the process *)

RunVars == {"PPLAY_LOAD_ONLY", "PPLAY_UNRATED_SIZE"}

\* PPLAY_LOAD_ONLY: a number, zero, a word, the empty string
RunValues ==
    [v \in RunVars |->
        CASE v = "PPLAY_LOAD_ONLY"    -> {<<"1">>, <<"0">>, <<"true">>, <<>>}
          [] v = "PPLAY_UNRATED_SIZE" -> {<<"1">>}]

InitRun ==
    /\ env \in Envs(RunVars, RunValues, 2)
    /\ library \in Libraries(MaxRunTracks, {"A"}, {0, 2}, {None, 1})
    /\ config = EmptyConfig
    /\ musicpd = NoTable
    /\ um = IdleUm
    /\ hs = IdleHs
    /\ ret = NoRet
    /\ playlists = <<>>
    /\ calls = [fetch |-> 0, replace |-> 0]
    /\ WatchIdle

NextRun ==
    \/ playlist_updater
    \/ PlexShell_init
    \/ do_update_unrated
    \/ unrated_mix_draw
    \/ unrated_mix_return
    \/ do_update_hyper
    \/ hyper_shuffle_bucket
    \/ hyper_shuffle_return
    \/ update_playlist

SpecRun == InitRun /\ [][NextRun]_vars

-----------------------------------------------------------------------------
(* The round-robin loop of generate_unrated_mix under fair random draws *)

LoopValues ==
    [v \in {"PPLAY_UNRATED_SIZE"} |-> {<<"1">>, <<"2">>, <<"3">>}]

InitLoop ==
    \E e \in Envs({"PPLAY_UNRATED_SIZE"}, LoopValues, 1) :
    \E lib \in Libraries(MaxLoopTracks, Albums, {0, 2}, {None}) :
        Constructed(e, lib)

\* an iteration whose random.choice returned a track the set did not hold
DrawAdds(t) ==
    /\ unrated_mix_draw
    /\ t \notin um.tracks
    /\ t \in um'.tracks

\* A running call goes on running, and random.choice is uniform: a track that
\* can be chosen again and again is chosen in the end (with probability 1).
LoopFairness ==
    /\ WF_vars(unrated_mix_draw)
    /\ WF_vars(unrated_mix_return)
    /\ \A t \in 1..MaxLoopTracks : SF_vars(DrawAdds(t))

SpecUnratedFair == InitLoop /\ [][NextUnrated]_vars /\ LoopFairness

-----------------------------------------------------------------------------
(* Fetching on its own: sections that hold the same guid more than once *)

\* every music section of at most n tracks whose guids are drawn from G
Sections(n, G, AL, RT, TM) ==
    UNION {{[i \in 1..k |-> TrackAt(i, f[i][1], f[i][2], f[i][3], f[i][4])] :
              f \in [1..k -> G \X AL \X RT \X TM]} : k \in 0..n}

Guids == {"g1", "g2"}

\* raw userRating values: none, no stars, half a star, five stars
FetchRatings == {None, 0, 1, 10}

\* PPLAY_MUSIC_ATTRS_COOKED: without a rating column, or too short a list
FetchValues ==
    [v \in {"PPLAY_MUSIC_ATTRS_COOKED"} |-> {CookedNoRating, <<"a", "|", "b">>}]

\* a PlexMusicLibrary about to fetch: the configuration read, no table yet
InitFetch ==
    \E e \in Envs({"PPLAY_MUSIC_ATTRS_COOKED"}, FetchValues, 1) :
    \E lib \in Sections(MaxFetchTracks, Guids, {"A"}, FetchRatings, {None}) :
        /\ env = e
        /\ library = lib
        /\ config = InitEnvConfig(EmptyConfig, e, NoneVal)
        /\ musicpd = NoTable
        /\ um = IdleUm
        /\ hs = IdleHs
        /\ ret = NoRet
        /\ playlists = <<>>
        /\ calls = [fetch |-> 0, replace |-> 0]
        /\ WatchIdle

NextFetch == fetch_tracks

SpecFetch == InitFetch /\ [][NextFetch]_vars

-----------------------------------------------------------------------------
(* Properties *)

UnratedOk == ret.fn = "generate_unrated_mix" /\ ret.status = "ok"

HyperOk == ret.fn = "generate_hyper_shuffle_mix" /\ ret.status = "ok"

RowIdx == 1..Len(musicpd.rows)

\* the row a Track object belongs to
RowOfTrack(t) == CHOOSE r \in SeqSet(musicpd.rows) : r[TrackCol] = t

\* the tracks of the table whose rating is exactly 0
ZeroRated == {musicpd.rows[i][TrackCol] : i \in {j \in RowIdx : musicpd.rows[j][RatingCol] = <<0, 0>>}}

NoDuplicates(s) == \A i, j \in 1..Len(s) : i # j => s[i] # s[j]

Min(a, b) == IF a <= b THEN a ELSE b

\* C1: generate_unrated_mix never returns more tracks than play_unrated_size,
\* and its result set never holds more while the loop runs.
C1_UnratedAtMostSize ==
    /\ UnratedOk => Len(ret.tracks) <= config.play_unrated_size.v
    /\ um.pc = "loop" => Cardinality(um.tracks) <= config.play_unrated_size.v

\* the round-robin filled the result up to the size, with unrated tracks left over
C1_Witness ==
    /\ UnratedOk
    /\ HasAttr(musicpd, RatingCol)
    /\ Cardinality(ZeroRated) > config.play_unrated_size.v
    /\ Len(ret.tracks) = config.play_unrated_size.v

\* the tracks generate_hyper_shuffle_mix holds: its list while it runs, its result after
HyperTracks ==
    IF hs.pc = "loop" THEN hs.tracks ELSE IF HyperOk THEN ret.tracks ELSE <<>>

\* how many buckets the tracks held so far cover
BucketsDone ==
    IF hs.pc = "loop" THEN hs.idx - 1
    ELSE IF HyperOk THEN Len(config.play_hyper_sources) ELSE 0

\* the number of tracks of a star rating in the table, and in a list of tracks
Supply(star) == Cardinality({i \in RowIdx : musicpd.rows[i][RatingCol] = <<star, 0>>})

CountOfStar(s, star) ==
    Cardinality({i \in 1..Len(s) : RowOfTrack(s[i])[RatingCol] = <<star, 0>>})

RECURSIVE SumCounts(_)
SumCounts(d) == IF d = <<>> THEN 0 ELSE Head(d).count.v + SumCounts(Tail(d))

\* C2: with multiplier >= 1 every bucket already handled contributed exactly
\* min(count, supply) tracks of its rating, and the whole list is never longer
\* than the sum of the counts.
C2_BucketContribution ==
    (HasAttr(musicpd, RatingCol) /\ config.play_loopback_mult.v >= 1) =>
        /\ \A k \in 1..BucketsDone :
              CountOfStar(HyperTracks, config.play_hyper_sources[k].star)
                = Min(config.play_hyper_sources[k].count.v,
                      Supply(config.play_hyper_sources[k].star))
        /\ Len(HyperTracks) <= SumCounts(config.play_hyper_sources)
        /\ HyperOk => \A i \in 1..Len(ret.tracks) :
              \E k \in 1..Len(config.play_hyper_sources) :
                 RowOfTrack(ret.tracks[i])[RatingCol] = <<config.play_hyper_sources[k].star, 0>>

\* a finished run in which one bucket was cut down to its count and another
\* gave all of a supply below its count
C2_Witness ==
    /\ HyperOk
    /\ HasAttr(musicpd, RatingCol)
    /\ Supply(1) = 2 /\ CountOfStar(ret.tracks, 1) = 1
    /\ Supply(0) = 1 /\ CountOfStar(ret.tracks, 0) = 1

\* C3: without a rating column both selectors return the playlist name and an
\* empty list, and neither fails.
C3_MissingRatingGivesEmpty ==
    (~HasAttr(musicpd, RatingCol) /\ ret.fn \in {"generate_unrated_mix", "generate_hyper_shuffle_mix"}) =>
        /\ ret.status = "ok"
        /\ ret.tracks = <<>>
        /\ ret.name = IF ret.fn = "generate_unrated_mix"
                      THEN config.play_unrated_name ELSE config.play_hyper_name

\* C4: when at most play_unrated_size tracks have rating 0, the result is
\* exactly those tracks, each once.
C4_SmallUnratedReturnedWhole ==
    (UnratedOk /\ HasAttr(musicpd, RatingCol)
       /\ Cardinality(ZeroRated) <= config.play_unrated_size.v) =>
        /\ SeqSet(ret.tracks) = ZeroRated
        /\ Len(ret.tracks) = Cardinality(ZeroRated)

\* the case with some zero-rated tracks, as many as the size, and others besides
C4_Witness ==
    /\ UnratedOk
    /\ HasAttr(musicpd, RatingCol)
    /\ Cardinality(ZeroRated) = config.play_unrated_size.v
    /\ Cardinality(ZeroRated) < Len(musicpd.rows)
    /\ \E i \in RowIdx : musicpd.rows[i][RatingCol] = NaN
    /\ SeqSet(ret.tracks) = ZeroRated

\* C5: every track generate_unrated_mix returns, or holds while looping, has
\* rating exactly 0 in the table, and none is returned twice.
C5_UnratedOnlyZeroRatedOnce ==
    /\ UnratedOk => /\ \A i \in 1..Len(ret.tracks) :
                          RowOfTrack(ret.tracks[i])[RatingCol] = <<0, 0>>
                    /\ NoDuplicates(ret.tracks)
    /\ um.pc = "loop" => \A t \in um.tracks : RowOfTrack(t)[RatingCol] = <<0, 0>>

\* a result of the round-robin over two albums, from a table that also holds
\* rated tracks and tracks without rating
C5_Witness ==
    /\ UnratedOk
    /\ HasAttr(musicpd, RatingCol)
    /\ Cardinality(ZeroRated) > config.play_unrated_size.v
    /\ Len(ret.tracks) = 2
    /\ \E i, j \in RowIdx : /\ musicpd.rows[i][RatingCol] \notin {<<0, 0>>}
                            /\ musicpd.rows[j][RatingCol] = <<0, 0>>
                            /\ musicpd.rows[i][AlbumCol] = musicpd.rows[j][AlbumCol]
    /\ \E i, j \in 1..Len(ret.tracks) :
          RowOfTrack(ret.tracks[i])[AlbumCol] # RowOfTrack(ret.tracks[j])[AlbumCol]

\* C6: the tracks one rating bucket contributes hold no track twice.
C6_BucketWithoutReplacement ==
    HasAttr(musicpd, RatingCol) =>
        \A i, j \in 1..Len(HyperTracks) :
            (i # j /\ RowOfTrack(HyperTracks[i])[RatingCol] = RowOfTrack(HyperTracks[j])[RatingCol])
                => HyperTracks[i] # HyperTracks[j]

\* a bucket that sampled two tracks out of a window of more
C6_Witness ==
    /\ HyperOk
    /\ HasAttr(musicpd, RatingCol)
    /\ Supply(0) = 3
    /\ CountOfStar(ret.tracks, 0) = 2

\* row a comes strictly before row b when sorted ascending by last-played
\* time with the never-played rows first
StrictlyEarlier(a, b) ==
    \/ a[LastViewedCol] = None /\ b[LastViewedCol] # None
    \/ a[LastViewedCol] # None /\ b[LastViewedCol] # None
         /\ a[LastViewedCol] < b[LastViewedCol]

\* the count configured for the bucket a row's rating falls in
CountFor(r) ==
    (CHOOSE e \in SeqSet(config.play_hyper_sources) : <<e.star, 0>> = r[RatingCol]).count.v

\* C7: every track held for a bucket lies in the bucket's recency window:
\* fewer than count * multiplier tracks of its rating come strictly before it.
C7_WithinRecencyWindow ==
    HasAttr(musicpd, RatingCol) =>
        \A p \in 1..Len(HyperTracks) :
            LET r == RowOfTrack(HyperTracks[p])
            IN  Cardinality({i \in RowIdx :
                                /\ musicpd.rows[i][RatingCol] = r[RatingCol]
                                /\ StrictlyEarlier(musicpd.rows[i], r)})
                  < CountFor(r) * config.play_loopback_mult.v

\* a bucket whose window (two rows) left out a later-played track of its rating
C7_Witness ==
    /\ HyperOk
    /\ HasAttr(musicpd, RatingCol)
    /\ config.play_loopback_mult.v = 2
    /\ Supply(1) = 3
    /\ CountOfStar(ret.tracks, 1) = 1
    /\ \E i \in RowIdx : /\ musicpd.rows[i][RatingCol] = <<1, 0>>
                         /\ musicpd.rows[i][LastViewedCol] = 2
                         /\ musicpd.rows[i][TrackCol] \notin SeqSet(ret.tracks)
    /\ \E i \in RowIdx : /\ musicpd.rows[i][RatingCol] = <<1, 0>>
                         /\ musicpd.rows[i][LastViewedCol] = None

\* C8: a completed change_playlist_content(name, tracks) leaves a playlist of
\* that name holding exactly the given tracks in the given order, whether it
\* was created or emptied first, and leaves every other playlist as it was.
C8_PlaylistReplaced ==
    [][\A name \in PlaylistNames, tracks \in ItemLists :
          change_playlist_content(name, tracks) =>
             /\ DOMAIN playlists' = DOMAIN playlists \cup {name}
             /\ playlists'[name] = tracks
             /\ \A other \in DOMAIN playlists \ {name} : playlists'[other] = playlists[other]]_vars

\* a replacement has run next to two other playlists that hold items
C8_Witness ==
    /\ ret.fn = "change_playlist_content"
    /\ ret.name = StrVal(<<"HyperShuffle">>)
    /\ DOMAIN playlists = PlaylistNames
    /\ playlists[StrVal(<<"HyperShuffle">>)] = <<2, 1>>
    /\ playlists[StrVal(<<"Unrated Mix">>)] = <<1, 1>>
    /\ playlists[StrVal(<<"Other">>)] = <<1, 2>>

\* a step of either selector
SelectorStep ==
    \/ generate_unrated_mix
    \/ unrated_mix_draw
    \/ unrated_mix_return
    \/ generate_hyper_shuffle_mix
    \/ hyper_shuffle_bucket
    \/ hyper_shuffle_return

Unset(v) == v \notin DOMAIN env

\* the count init_env left for a star rating
SourceCount(star) ==
    (CHOOSE e \in SeqSet(config.play_hyper_sources) : e.star = star).count

\* C10: init_env never fails over an unset variable (it raises only when one
\* of the logging variables is set, to a value logging refuses); once it
\* returned the configuration is initialized and every item whose variable is
\* unset holds its built-in default.
C10_MissingFallsBackToDefaults ==
    /\ (ret.fn = "init_env" /\ ret.status = "raised") =>
          \E v \in {"PPLAY_LOG_LEVEL", "PPLAY_LOG_FILE", "PPLAY_LOG_FORMAT"} : ~Unset(v)
    /\ (ret.fn = "init_env" /\ ret.status = "ok") =>
        /\ config.initialized
        /\ [i \in 1..Len(config.play_hyper_sources) |-> config.play_hyper_sources[i].star]
              = <<5, 4, 3, 2, 1, 0>>
        /\ Unset("PPLAY_UNRATED_SIZE") => config.play_unrated_size = IntVal(100)
        /\ Unset("PPLAY_LOOKBACK_MULTIPLIER") => config.play_loopback_mult = IntVal(6)
        /\ Unset("PPLAY_NUM_5") => SourceCount(5) = IntVal(15)
        /\ Unset("PPLAY_NUM_4") => SourceCount(4) = IntVal(60)
        /\ Unset("PPLAY_NUM_3") => SourceCount(3) = IntVal(16)
        /\ Unset("PPLAY_NUM_2") => SourceCount(2) = IntVal(6)
        /\ Unset("PPLAY_NUM_1") => SourceCount(1) = IntVal(1)
        /\ Unset("PPLAY_NUM_0") => SourceCount(0) = IntVal(2)
        /\ Unset("PPLAY_UNRATED_NAME") => config.play_unrated_name = StrVal(<<"Unrated Mix">>)
        /\ Unset("PPLAY_HYPER_NAME") => config.play_hyper_name = StrVal(<<"HyperShuffle">>)
        /\ Unset("PPLAY_MUSIC_LIBRARY") => config.music_section = StrVal(<<"Music">>)

\* init_env has returned with nothing set in the environment
C10_Witness ==
    /\ ret.fn = "init_env"
    /\ ret.status = "ok"
    /\ DOMAIN env = {}
    /\ config.initialized

\* the first track of the section that carries a guid
FirstWithGuid(g) ==
    CHOOSE k \in 1..Len(library) :
        library[k].guid = g /\ \A j \in 1..(k - 1) : library[j].guid # g

FetchOk == ret.fn = "fetch_tracks" /\ ret.status = "ok"

\* C11: the fetched table holds no id twice, holds every guid of the section
\* in exactly one row (the row of the first track carrying it), and with a
\* rating column each rating is the raw value halved: twice the rating is the
\* raw value, and a raw value of 0..10 gives a rating of 0..5.  A track with
\* no raw rating has none in the table either.
C11_TableDeduplicatedAndHalved ==
    FetchOk =>
        /\ \A i, j \in RowIdx : i # j => musicpd.rows[i][IdCol] # musicpd.rows[j][IdCol]
        /\ {musicpd.rows[i][IdCol] : i \in RowIdx} = {library[k].guid : k \in 1..Len(library)}
        /\ \A i \in RowIdx :
              LET trk == library[FirstWithGuid(musicpd.rows[i][IdCol])]
                  r   == musicpd.rows[i]
              IN  /\ r[TrackCol] = trk.key
                  /\ HasAttr(musicpd, RatingCol) =>
                        IF trk.userRating = None THEN r[RatingCol] = NaN
                        ELSE /\ 2 * r[RatingCol][1] + r[RatingCol][2] = trk.userRating
                             /\ r[RatingCol][2] \in {0, 1}
                             /\ trk.userRating \in 0..10 =>
                                   /\ r[RatingCol][1] \in 0..5
                                   /\ r[RatingCol][1] = 5 => r[RatingCol][2] = 0

\* three tracks fetched, two of them under one guid with different ratings;
\* the table holds two rows, one of five stars and one of half a star
C11_Witness ==
    /\ FetchOk
    /\ HasAttr(musicpd, RatingCol)
    /\ Len(library) = 3
    /\ Len(musicpd.rows) = 2
    /\ library[1].guid = library[3].guid
    /\ library[1].userRating = 10 /\ library[3].userRating = 0
    /\ library[2].userRating = 1
    /\ musicpd.rows[1][RatingCol] = <<5, 0>>
    /\ musicpd.rows[2][RatingCol] = <<0, 1>>

\* the table cut down to its rating == 0 rows
Filtered(pd) == [pd EXCEPT !.rows = UnratedRows(pd)]

\* the call returns its filtered rows as they are
ReturnsFiltered ==
    /\ UnratedOk
    /\ HasAttr(musicpd, RatingCol)
    /\ Len(UnratedRows(musicpd)) <= config.play_unrated_size.v

\* C12: the rating == 0 filter applied to its own result gives the same rows
\* (hence the same set of tracks), and the rows it keeps are the zero-rated
\* ones of the table; two calls on the same fetched table that return their
\* filtered rows return the same set of tracks.
C12_FilterIdempotent ==
    /\ [](HasAttr(musicpd, RatingCol) =>
            /\ UnratedRows(Filtered(musicpd)) = UnratedRows(musicpd)
            /\ SeqSet(TrackList(UnratedRows(Filtered(musicpd)))) = ZeroRated
            /\ ReturnsFiltered => ret.tracks = TrackList(UnratedRows(Filtered(musicpd))))
    /\ [][(ReturnsFiltered /\ ReturnsFiltered') =>
            SeqSet(ret.tracks') = SeqSet(ret.tracks)]_vars

\* the filter kept two of four rows, dropping a rated one and one without
\* rating, and the call returned the two
C12_Witness ==
    /\ ReturnsFiltered
    /\ Len(musicpd.rows) = 4
    /\ Len(UnratedRows(musicpd)) = 2
    /\ \E i, j \in RowIdx : /\ musicpd.rows[i][RatingCol] = <<1, 0>>
                            /\ musicpd.rows[j][RatingCol] = NaN
    /\ Len(ret.tracks) = 2

\* the zero-rated tracks of an album
ZeroRatedOn(album) == {t \in ZeroRated : RowOfTrack(t)[AlbumCol] = album}

\* C13: once generate_unrated_mix has entered its round-robin loop (more
\* zero-rated tracks than play_unrated_size) it eventually returns, and it
\* returns exactly play_unrated_size distinct tracks.
C13_LoopTerminates ==
    (um.pc = "loop") ~>
        (/\ UnratedOk
         /\ Len(ret.tracks) = config.play_unrated_size.v
         /\ Len(ret.tracks) < Cardinality(ZeroRated)
         /\ NoDuplicates(ret.tracks))

\* three tracks returned out of four zero-rated ones, where one album held a
\* single zero-rated track: that album was used up before the third draw
C13_Witness ==
    /\ UnratedOk
    /\ config.play_unrated_size.v = 3
    /\ Len(ret.tracks) = 3
    /\ Cardinality(ZeroRatedOn("A")) = 1
    /\ Cardinality(ZeroRatedOn("B")) = 3
    /\ ZeroRatedOn("A") \subseteq SeqSet(ret.tracks)

\* the load-only flag as both programs read it: get_from_env('PPLAY_LOAD_ONLY')
\* taken as a truth value
LoadOnlySet == Truthy(get_from_env(env, "PPLAY_LOAD_ONLY"))

\* no playlist was created or modified, no replacement was asked for
PlaylistsUntouched == playlists = <<>> /\ calls.replace = 0

\* with the flag set, no program touches a playlist
DryRunLeavesPlaylists == LoadOnlySet => PlaylistsUntouched

\* C14: with the load-only flag set no playlist is created or modified by
\* the script or by the shell's update command, although the candidate lists
\* are still generated: an update command that ended produced its list, and a
\* script that ended went through the generation of both lists.
C14_DryRunOnlyGenerates ==
    LoadOnlySet =>
        /\ PlaylistsUntouched
        /\ ret.fn \in {"generate_unrated_mix", "generate_hyper_shuffle_mix"} =>
              ret.status = "ok"
        /\ ret.fn = "playlist_updater" => ret.status = "ok"

\* C15: a run of the script with PPLAY_LOAD_ONLY unset that has ended ended
\* without an error, after one fetch and one replacement of each of the two
\* playlists, which both exist on the server.
C15_ScriptRunsPipeline ==
    (Unset("PPLAY_LOAD_ONLY") /\ ret.fn = "playlist_updater") =>
        /\ ret.status = "ok"
        /\ calls.fetch = 1
        /\ calls.replace = 2
        /\ DOMAIN playlists = {StrVal(<<"Unrated Mix">>), StrVal(<<"HyperShuffle">>)}

Stopped == timer.stop_time # None

\* a call of click(), stop() or time()
FrozenCall == click \/ stop \/ \E running_total \in BOOLEAN : time(running_total)

\* C16: on a stopped Stopwatch click(), stop() and time() change no field
\* (stop time, last timing point, click count, start time) and each returns
\* the total from start to stop, however late it is called; the click count
\* is at least 1 in every state, so avg() has a divisor.
C16_StoppedStaysFrozen ==
    /\ [](timer.click_count >= 1 /\ elapsed.fn # "ZeroDivisionError")
    /\ [][(Stopped /\ FrozenCall) =>
            /\ timer' = timer
            /\ elapsed'.num = timer.stop_time - timer.start_time
            /\ elapsed'.den = 1]_vars

\* a Stopwatch clicked once, stopped after two seconds, and clicked again a
\* second later: the click returned the two seconds and counted nothing
C16_Witness ==
    /\ Stopped
    /\ elapsed = Seconds("click", 2, 1)
    /\ timer.stop_time - timer.start_time = 2
    /\ timer.last_time = timer.start_time
    /\ timer.click_count = 2
    /\ now > timer.stop_time

\* the numeric settings: variable, the value init_env left, built-in default
NumericItems ==
    {<<"PPLAY_UNRATED_SIZE", config.play_unrated_size, DefaultUnratedSize>>,
     <<"PPLAY_LOOKBACK_MULTIPLIER", config.play_loopback_mult, DefaultLookbackMult>>,
     <<"PPLAY_NUM_5", SourceCount(5), DefaultNum5>>,
     <<"PPLAY_NUM_4", SourceCount(4), DefaultNum4>>,
     <<"PPLAY_NUM_3", SourceCount(3), DefaultNum3>>,
     <<"PPLAY_NUM_2", SourceCount(2), DefaultNum2>>,
     <<"PPLAY_NUM_1", SourceCount(1), DefaultNum1>>,
     <<"PPLAY_NUM_0", SourceCount(0), DefaultNum0>>}

\* the variable is set to a string of digits
SetNumeric(v) == ~Unset(v) /\ IsNumeric(env[v])

\* C17: once init_env returned, a count, size or multiplier whose variable
\* is set to a number holds that number if it is not 0 and the built-in
\* default if it is 0; so it is an int >= 1 whenever its variable is unset or
\* numeric.
C17_ZeroFallsBackToDefault ==
    (ret.fn = "init_env" /\ ret.status = "ok") =>
        \A item \in NumericItems :
            /\ SetNumeric(item[1]) =>
                  item[2] = IntVal(IF ParseInt(env[item[1]]) = 0
                                   THEN item[3] ELSE ParseInt(env[item[1]]))
            /\ (Unset(item[1]) \/ SetNumeric(item[1])) =>
                  item[2].t = "int" /\ item[2].v >= 1

\* init_env returned with the 4-star count and the multiplier both set to 0
C17_Witness ==
    /\ ret.fn = "init_env"
    /\ ret.status = "ok"
    /\ DOMAIN env = {"PPLAY_NUM_4", "PPLAY_LOOKBACK_MULTIPLIER"}
    /\ env["PPLAY_NUM_4"] = <<"0">>
    /\ env["PPLAY_LOOKBACK_MULTIPLIER"] = <<"0">>
    /\ SourceCount(4) = IntVal(60)
    /\ config.play_loopback_mult = IntVal(6)

====
